---------------------------- MODULE Spec2Model ----------------------------
(***************************************************************************)
(* A model of the trace reconciliation pass (normalizeData, in             *)
(* src/services/geminiService.ts), of the forest layout builder            *)
(* (calculateTreeLayout, in src/utils/layout.ts) and of the batch loop of  *)
(* handleBuild (src/App.tsx).                                              *)
(*                                                                         *)
(* JavaScript values are modelled as records of one shape, so that any two *)
(* of them can be compared: t is the type tag, n the number, s the string  *)
(* (a sequence of one-character strings, so that toLowerCase and includes  *)
(* are computed and not looked up), e the elements of an array.            *)
(***************************************************************************)
EXTENDS Integers, Sequences, FiniteSets, TLC

VARIABLES
    pc,        \* which operation ran last
    arr,       \* cleanArray: the array handed to the sanitizer
    cleaned,   \* cleanArray: the array it returned
    raw,       \* normalizeData: the batch as parsed from the generator's JSON
    data,      \* normalizeData: the batch, mutated in place by the passes so far
    prev,      \* normalizeData: the batch as it stood before the latest pass
    console,   \* normalizeData: the warnings written with console.warn so far
    runs,      \* normalizeData: how many passes have run over the batch
    treeData,  \* calculateTreeLayout: the node map, keys in iteration order
    viewport,  \* calculateTreeLayout: the viewport width and height handed to it
    layout,    \* calculateTreeLayout: what it returned
    simData,   \* handleBuild: the document held in React state (or NoData)
    batches,   \* handleBuild: the batches session.start/nextBatch returned so far
    sanityLimit,    \* handleBuild: the loop counter of the batch-fetch loop
    isLoading,      \* App: the React state isLoading
    currentStepIdx, \* App: the React state currentStepIdx
    consoleOutput,  \* App: the React state consoleOutput
    isAutoPlaying,  \* App: the React state isAutoPlaying
    ancestorWalk,   \* App: the ancestor walk, [pc, curr, ancestors, idx, turn]
    retry           \* retryWithBackoff: [pc, i, delay, retryReason, log, result, error]

\* the React state the playback handlers read and write
ui == <<isLoading, currentStepIdx, consoleOutput, isAutoPlaying>>

vars == <<pc, arr, cleaned, raw, data, prev, console, runs, treeData, viewport,
          layout, simData, batches, sanityLimit, ui, ancestorWalk, retry>>

-----------------------------------------------------------------------------
(* Bounds of the model. *)

\* the most elements, nested arrays counted, of an array handed to cleanArray
MaxSize == 4
\* longest step sequence of a batch whose variable mappings are reconciled
MaxSteps == 3
\* longest step sequence of a batch whose node references are repaired
MaxRepairSteps == 2
\* how many times normalizeData is run over one batch
MaxRuns == 2
\* the most nodes of a node map handed to calculateTreeLayout
MaxNodes == 3
\* how many batches of the generator's choosing one build receives; the
\* batches after these hold no step and no node
MaxBatches == 2

-----------------------------------------------------------------------------
(* JavaScript values. *)

Num(n) == [t |-> "number", n |-> n, s |-> <<>>, e |-> <<>>]
Str(s) == [t |-> "string", n |-> 0, s |-> s, e |-> <<>>]
Arr(e) == [t |-> "array", n |-> 0, s |-> <<>>, e |-> e]

IsArray(v) == v.t = "array"

\* null and undefined, where a string (a node id, a parent id) is expected
NULL == "<null>"
UNDEFINED == "<undefined>"

\* the lower-case letter of each upper-case letter
LowerOf ==
    [A |-> "a", B |-> "b", C |-> "c", D |-> "d", E |-> "e", F |-> "f", G |-> "g",
     H |-> "h", I |-> "i", J |-> "j", K |-> "k", L |-> "l", M |-> "m", N |-> "n",
     O |-> "o", P |-> "p", Q |-> "q", R |-> "r", S |-> "s", T |-> "t", U |-> "u",
     V |-> "v", W |-> "w", X |-> "x", Y |-> "y", Z |-> "z"]

\* String.prototype.toLowerCase, character by character
toLowerCase(s) ==
    [k \in 1..Len(s) |-> IF s[k] \in DOMAIN LowerOf THEN LowerOf[s[k]] ELSE s[k]]

\* String.prototype.includes
includes(s, pat) ==
    \E k \in 0..(Len(s) - Len(pat)) :
        \A j \in 1..Len(pat) : s[k + j] = pat[j]

garbage == <<"g", "a", "r", "b", "a", "g", "e">>
random == <<"r", "a", "n", "d", "o", "m">>
uninitialized == <<"u", "n", "i", "n", "i", "t", "i", "a", "l", "i", "z", "e", "d">>
printf == <<"p", "r", "i", "n", "t", "f">>
malloc == <<"m", "a", "l", "l", "o", "c">>

-----------------------------------------------------------------------------
(* cleanArray, geminiService.ts lines 24-39. *)

\* a mutant of IsNoise: the comparison forgets toLowerCase
IsNoiseCaseSensitive(item) ==
    /\ item.t = "string"
    /\ \/ includes(item.s, garbage)
       \/ includes(item.s, random)
       \/ includes(item.s, uninitialized)

\* the condition of lines 29-34
IsNoise(item) ==
    /\ item.t = "string"
    /\ \/ includes(toLowerCase(item.s), garbage)
       \/ includes(toLowerCase(item.s), random)
       \/ includes(toLowerCase(item.s), uninitialized)

RECURSIVE cleanArray(_)
cleanArray(a) ==
    [k \in 1..Len(a) |->
        IF IsArray(a[k]) THEN Arr(cleanArray(a[k].e))
        ELSE IF IsNoise(a[k]) THEN Str(<<"?">>)
        ELSE a[k]]

-----------------------------------------------------------------------------
(* The arrays the sanitizer is tried on. *)

Plain5 == Str(<<"5">>)
Garbage1 == Str(<<"G", "a", "r", "b", "a", "g", "e">>)
Random1 == Str(<<"R", "A", "N", "D", "O", "M", "_", "n", "o", "i", "s", "e">>)
Uninit1 == Str(<<"x", " ", "u", "n", "i", "n", "i", "t", "i", "a", "l", "i", "z", "e", "d">>)

Atoms == {Num(2), Plain5, Garbage1, Random1, Uninit1}

RECURSIVE ArraysOfSize(_)
\* the element lists that hold n elements in all, nested arrays and their
\* elements counted: the first element is an atom or a nested array
ArraysOfSize(n) ==
    IF n = 0 THEN {<<>>}
    ELSE UNION {
        {<<x>> \o rest :
            x \in (IF k = 1 THEN Atoms ELSE {}) \cup
                  {Arr(a) : a \in ArraysOfSize(k - 1)},
            rest \in ArraysOfSize(n - k)} : k \in 1..n}

ArraysUpTo(n) == UNION {ArraysOfSize(k) : k \in 0..n}

-----------------------------------------------------------------------------
(* Steps, snapshots and the node map (src/types.ts).                       *)
(*                                                                         *)
(* A step is [hasS, h, hasVars, vars, n]: hasS says whether the snapshot s *)
(* arrived, h is its depth (a number or a string), hasVars whether s.vars  *)
(* arrived, vars the mapping (a function on the names present), n the      *)
(* node id or NULL. A node map is [keys, node]: keys is Object.keys in     *)
(* iteration order, node the function from the keys to the TreeNodes.      *)

EmptyVars == [k \in {} |-> Num(0)]
EmptyTree == [keys |-> <<>>, node |-> [k \in {} |-> 0]]

Range(f) == {f[k] : k \in DOMAIN f}
HasKey(tree, id) == id \in DOMAIN tree.node

Digits == <<"0", "1", "2", "3", "4", "5", "6", "7", "8", "9">>
IsDigit(c) == \E d \in 1..10 : Digits[d] = c
DigitValue(c) == (CHOOSE d \in 1..10 : Digits[d] = c) - 1

RECURSIVE DecimalValue(_)
DecimalValue(s) ==
    IF s = <<>> THEN 0
    ELSE 10 * DecimalValue(SubSeq(s, 1, Len(s) - 1)) + DigitValue(s[Len(s)])

\* ToNumber of a string, for the strings of digits and the others (NaN); the
\* empty string converts to 0
StringToNumber(s) ==
    IF \A k \in 1..Len(s) : IsDigit(s[k])
    THEN [nan |-> FALSE, n |-> DecimalValue(s)]
    ELSE [nan |-> TRUE, n |-> 0]

\* a mutant of LooseEquals: === for ==
StrictEquals(a, b) == a = b

\* JavaScript's == on two depths, each a number or a string
LooseEquals(a, b) ==
    IF a.t = b.t THEN a = b
    ELSE IF a.t = "number" /\ b.t = "string"
         THEN ~StringToNumber(b.s).nan /\ StringToNumber(b.s).n = a.n
    ELSE IF a.t = "string" /\ b.t = "number"
         THEN ~StringToNumber(a.s).nan /\ StringToNumber(a.s).n = b.n
    ELSE FALSE

-----------------------------------------------------------------------------
(* normalizeData, geminiService.ts lines 10-116. *)

\* a mutant of CleanVars: the arrays are left as they arrived
CleanNothing(vs) == vs

\* lines 41-46: every array-valued entry of the mapping is sanitized
CleanVars(vs) ==
    [k \in DOMAIN vs |-> IF IsArray(vs[k]) THEN Arr(cleanArray(vs[k].e)) ELSE vs[k]]

\* lines 51-55: the arrays of the step overwrite the running table
RecordArrays(persistentArrays, vs) ==
    [k \in DOMAIN persistentArrays \cup {x \in DOMAIN vs : IsArray(vs[x])} |->
        IF k \in DOMAIN vs /\ IsArray(vs[k]) THEN vs[k] ELSE persistentArrays[k]]

\* a mutant of BackfillArrays: nothing is backfilled
BackfillNothing(persistentArrays, vs) == vs

\* a mutant of BackfillArrays: the table overwrites what the step holds
BackfillAlways(persistentArrays, vs) ==
    [k \in DOMAIN vs \cup DOMAIN persistentArrays |->
        IF k \in DOMAIN persistentArrays THEN persistentArrays[k] ELSE vs[k]]

\* lines 57-61: the names of the table the step lacks are backfilled
BackfillArrays(persistentArrays, vs) ==
    [k \in DOMAIN vs \cup DOMAIN persistentArrays |->
        IF k \in DOMAIN vs THEN vs[k] ELSE persistentArrays[k]]

\* a mutant of DepthMatches: the depths are not compared
DepthIgnored(prevStep, step) == prevStep.hasS

\* line 71: the previous step has a snapshot of the same depth
DepthMatches(prevStep, step) ==
    prevStep.hasS /\ LooseEquals(prevStep.h, step.h)

\* a mutant of InheritScalars: nothing is copied
InheritNothing(prevVars, vs) == vs

\* lines 72-78: the scalars of the previous step the step lacks are copied
InheritScalars(prevVars, vs) ==
    [k \in DOMAIN vs \cup {x \in DOMAIN prevVars : ~IsArray(prevVars[x])} |->
        IF k \in DOMAIN vs THEN vs[k] ELSE prevVars[k]]

\* a mutant of NeedsNode: the map is not looked at
NeedsNodeAlways(step, tree) == step.n # NULL

\* line 85: the step names a node the map lacks
NeedsNode(step, tree) == step.n # NULL /\ ~HasKey(tree, step.n)

\* lines 90-91: the node of the previous step, whatever the map holds
ParentNode(steps, i) ==
    IF i > 1 /\ steps[i - 1].n # NULL THEN steps[i - 1].n ELSE NULL

NormalizedLabel == <<"n", "o", "r", "m", "a", "l", "i", "z", "e", "d", " ", "n", "o", "d", "e">>

\* lines 93-102
NewNode(tree, parentNode) ==
    [l |-> NormalizedLabel,
     p |-> parentNode,
     level |-> IF parentNode # NULL /\ HasKey(tree, parentNode)
               THEN tree.node[parentNode].level + 1 ELSE 0,
     children |-> <<>>,
     type |-> "standard"]

\* data.tree[id] = node, on an id the map lacks: the key goes last
AddNode(tree, id, node) ==
    [keys |-> Append(tree.keys, id),
     node |-> [k \in DOMAIN tree.node \cup {id} |->
                  IF k = id THEN node ELSE tree.node[k]]]

\* a mutant of LinkChild: the child is appended without looking at the list
LinkChildAlways(tree, parentNode, id) ==
    IF parentNode # NULL /\ HasKey(tree, parentNode)
    THEN [tree EXCEPT !.node[parentNode].children = Append(@, id)]
    ELSE tree

\* lines 105-111: the parent, looked up after the new node is stored, gets the
\* child unless its list holds it
LinkChild(tree, parentNode, id) ==
    IF parentNode # NULL /\ HasKey(tree, parentNode)
       /\ id \notin Range(tree.node[parentNode].children)
    THEN [tree EXCEPT !.node[parentNode].children = Append(@, id)]
    ELSE tree

\* lines 86-88: the warning names the node and the index of the step, which
\* the code counts from 0
Warning(steps, i) == [node |-> steps[i].n, step |-> i - 1]

\* lines 85-88: a warning is written when the step names a node the map lacks
WarningsOf(steps, tree, i) ==
    IF NeedsNode(steps[i], tree) THEN <<Warning(steps, i)>> ELSE <<>>

\* lines 85-112
RepairTree(steps, tree, i) ==
    IF NeedsNode(steps[i], tree)
    THEN LinkChild(AddNode(tree, steps[i].n, NewNode(tree, ParentNode(steps, i))),
                   ParentNode(steps, i), steps[i].n)
    ELSE tree

\* a mutant of PreviousVars: the mapping of the previous step as the generator
\* supplied it, without what the pass added to it
PreviousVarsAsParsed(steps, i) ==
    IF raw.steps[i - 1].hasS /\ raw.steps[i - 1].hasVars
    THEN raw.steps[i - 1].vars ELSE EmptyVars

\* line 72, prevStep.s.vars: the mapping of the previous step as the earlier
\* iteration left it
PreviousVars(steps, i) == steps[i - 1].vars

\* the body of the loop, lines 16-112, on step i of st = [steps, tree,
\* persistentArrays, warnings]; steps before i are as the earlier iterations
\* left them
LoopBody(st, i) ==
    LET step == st.steps[i] IN
    IF ~step.hasS THEN st
    ELSE
        LET vars0 == IF step.hasVars THEN step.vars ELSE EmptyVars
            vars1 == CleanVars(vars0)
            table == RecordArrays(st.persistentArrays, vars1)
            vars2 == BackfillArrays(table, vars1)
            vars3 == IF i > 1 /\ DepthMatches(st.steps[i - 1], step)
                     THEN InheritScalars(PreviousVars(st.steps, i), vars2)
                     ELSE vars2
        IN  [steps |-> [st.steps EXCEPT ![i].hasVars = TRUE, ![i].vars = vars3],
             tree |-> RepairTree(st.steps, st.tree, i),
             persistentArrays |-> table,
             warnings |-> st.warnings \o WarningsOf(st.steps, st.tree, i)]

RECURSIVE LoopStopsAtBare(_, _)
\* a mutant of Loop: a step without a snapshot ends the pass (break for
\* continue)
LoopStopsAtBare(st, i) ==
    IF i > Len(st.steps) \/ ~st.steps[i].hasS THEN st
    ELSE LoopStopsAtBare(LoopBody(st, i), i + 1)

RECURSIVE Loop(_, _)
\* lines 15-113
Loop(st, i) ==
    IF i > Len(st.steps) THEN st ELSE Loop(LoopBody(st, i), i + 1)

\* lines 10-116: the batch returned and the warnings written on the way
NormalizeResult(d) ==
    LET st == Loop([steps |-> d.steps, tree |-> d.tree,
                    persistentArrays |-> EmptyVars, warnings |-> <<>>], 1)
    IN  [data |-> [d EXCEPT !.steps = st.steps, !.tree = st.tree],
         warnings |-> st.warnings]

normalizeData(d) == NormalizeResult(d).data

-----------------------------------------------------------------------------
\* Visualizer.tsx line 44: the layout is always asked for this viewport
VisualizerViewport == [width |-> 100, height |-> 100]

NoLayout == [nodes |-> <<>>, links |-> <<>>, roots |-> <<>>, diverges |-> FALSE]
NoData == [steps |-> <<>>, tree |-> EmptyTree, isComplete |-> FALSE, none |-> TRUE]

\* App.tsx lines 733, 741, 742 and 772: the initial React state
InitApp ==
    /\ isLoading = FALSE /\ currentStepIdx = -1
    /\ consoleOutput = <<>> /\ isAutoPlaying = FALSE

\* no ancestor walk has run
NoWalk == [pc |-> "idle", curr |-> NULL, ancestors |-> {}, idx |-> -1, turn |-> 0]

\* an error as the catch of retryWithBackoff looks at it: whether the message
\* includes "429", "JSON", "Failed to parse", and the status and code fields
NoError ==
    [message429 |-> FALSE, messageJSON |-> FALSE, messageFailedToParse |-> FALSE,
     status |-> 0, code |-> 0, none |-> TRUE]

\* retryWithBackoff has not been called
NoRetry ==
    [pc |-> "idle", i |-> 0, delay |-> 0, retryReason |-> UNDEFINED,
     log |-> <<>>, result |-> NULL, error |-> NoError]

InitSanitize ==
    /\ pc = "input"
    /\ arr \in ArraysUpTo(MaxSize)
    /\ cleaned = <<>> /\ console = <<>>
    /\ raw = NoData /\ data = NoData /\ prev = NoData /\ runs = 0
    /\ treeData = EmptyTree /\ viewport = VisualizerViewport /\ layout = NoLayout
    /\ simData = NoData /\ batches = <<>> /\ sanityLimit = 0
    /\ InitApp /\ ancestorWalk = NoWalk /\ retry = NoRetry

\* the sanitizer applied to one array
Clean ==
    /\ pc = "input"
    /\ cleaned' = cleanArray(arr)
    /\ pc' = "cleaned"
    /\ UNCHANGED <<ui, ancestorWalk, retry, console, viewport, arr, raw, data, prev, runs, treeData, layout,
                   simData, batches, sanityLimit>>

NextSanitize == Clean

SpecSanitize == InitSanitize /\ [][NextSanitize]_vars

-----------------------------------------------------------------------------
(* Reconciliation of one batch: the batches normalizeData is tried on. *)

Batch(steps, tree, isComplete) ==
    [steps |-> steps, tree |-> tree, isComplete |-> isComplete, none |-> FALSE]

Step(hasS, h, hasVars, vs, n) ==
    [hasS |-> hasS, h |-> h, hasVars |-> hasVars, vars |-> vs, n |-> n,
     out |-> UNDEFINED]

\* the step with a console fragment
StepWithOut(step, out) == [step EXCEPT !.out = out]

\* a step that arrived without its snapshot
BareStep(n) == Step(FALSE, Num(0), FALSE, EmptyVars, n)

VarNames == {"arr"}
Array1 == Arr(<<Num(1), Garbage1>>)
Array2 == Arr(<<Arr(<<Random1, Num(2)>>)>>)
Scalar1 == Num(5)
Scalar2 == Str(garbage)
VarValues == {Scalar1, Scalar2, Array1, Array2}
VarMaps == UNION {[D -> VarValues] : D \in SUBSET VarNames}
Depths == {Num(0), Num(1), Str(<<"1">>)}

CarrySteps ==
    {BareStep(NULL)}
    \cup {Step(TRUE, h, FALSE, EmptyVars, NULL) : h \in Depths}
    \cup {Step(TRUE, h, TRUE, vs, NULL) : h \in Depths, vs \in VarMaps}

NodeIds == {"n1", "n2", "n3"}
RawKeys == {"n1"}
CallLabel == <<"f", "(", "1", ")">>

RawNodes ==
    [l : {CallLabel}, p : {NULL} \cup NodeIds, level : {0, 1},
     children : UNION {[1..k -> NodeIds] : k \in 0..2}, type : {"standard"}]

RawTrees ==
    {EmptyTree} \cup
    {[keys |-> <<id>>, node |-> [k \in {id} |-> nd]] : id \in RawKeys, nd \in RawNodes}

RepairSteps ==
    {Step(hasS, Num(0), hasS, EmptyVars, n) : hasS \in BOOLEAN, n \in {NULL} \cup NodeIds}

InitBatch(stepSet, maxSteps, trees) ==
    /\ pc = "parsed"
    /\ \E k \in 0..maxSteps : \E ss \in [1..k -> stepSet] : \E tr \in trees :
          raw = Batch(ss, tr, FALSE)
    /\ data = raw /\ prev = raw /\ runs = 0
    /\ arr = <<>> /\ cleaned = <<>> /\ console = <<>>
    /\ treeData = EmptyTree /\ viewport = VisualizerViewport /\ layout = NoLayout
    /\ simData = NoData /\ batches = <<>> /\ sanityLimit = 0
    /\ InitApp /\ ancestorWalk = NoWalk /\ retry = NoRetry

InitCarry == InitBatch(CarrySteps, MaxSteps, {EmptyTree})
InitRepair == InitBatch(RepairSteps, MaxRepairSteps, RawTrees)

\* SimulationSession.start/nextBatch, line 226/277: the parsed batch goes
\* through normalizeData
Normalize ==
    /\ pc = "parsed"
    /\ prev' = data
    /\ LET result == NormalizeResult(data)
       IN  data' = result.data /\ console' = console \o result.warnings
    /\ runs' = 1
    /\ pc' = "normalized"
    /\ UNCHANGED <<ui, ancestorWalk, retry, viewport, arr, cleaned, raw, treeData, layout, simData, batches, sanityLimit>>

\* normalizeData run once more over the batch it returned
NormalizeAgain ==
    /\ pc = "normalized"
    /\ runs < MaxRuns
    /\ prev' = data
    /\ LET result == NormalizeResult(data)
       IN  data' = result.data /\ console' = console \o result.warnings
    /\ runs' = runs + 1
    /\ UNCHANGED <<ui, ancestorWalk, retry, viewport, pc, arr, cleaned, raw, treeData, layout, simData, batches, sanityLimit>>

NextNormalize == Normalize \/ NormalizeAgain

SpecCarry == InitCarry /\ [][NextNormalize]_vars
SpecRepair == InitRepair /\ [][NextNormalize]_vars

-----------------------------------------------------------------------------
(* normalizeData run over a batch, and run again over what it returned with *)
(* further steps appended.                                                  *)

\* the steps of these batches: steps whose mapping is reconciled, steps whose
\* node reference is repaired, and a step without a snapshot
PrefixSteps ==
    {BareStep("n1")}
    \cup {Step(TRUE, h, TRUE, vs, NULL) :
            h \in {Num(0), Num(1)},
            vs \in {EmptyVars, [k \in {"arr"} |-> Array1], [k \in {"arr"} |-> Scalar1]}}
    \cup {Step(TRUE, Num(0), TRUE, EmptyVars, n) : n \in {"n1", "n2"}}

PrefixTrees ==
    {EmptyTree,
     [keys |-> <<"n1">>,
      node |-> [k \in {"n1"} |->
                  [l |-> CallLabel, p |-> NULL, level |-> 0, children |-> <<>>,
                   type |-> "standard"]]]}

InitPrefix == InitBatch(PrefixSteps, MaxSteps, PrefixTrees)

\* further steps are appended to the batch normalizeData returned; prev keeps
\* what it returned
Extend ==
    /\ pc = "normalized"
    /\ runs = 1
    /\ prev' = data
    /\ \E k \in 1..(MaxSteps - Len(data.steps)) : \E suffix \in [1..k -> PrefixSteps] :
          data' = [data EXCEPT !.steps = @ \o suffix]
    /\ pc' = "extended"
    /\ UNCHANGED <<ui, ancestorWalk, retry, console, viewport, arr, cleaned, raw, runs, treeData, layout, simData, batches, sanityLimit>>

\* normalizeData run over the extended batch
NormalizeExtended ==
    /\ pc = "extended"
    /\ LET result == NormalizeResult(data)
       IN  data' = result.data /\ console' = console \o result.warnings
    /\ runs' = runs + 1
    /\ pc' = "renormalized"
    /\ UNCHANGED <<ui, ancestorWalk, retry, viewport, arr, cleaned, raw, prev, treeData, layout, simData, batches, sanityLimit>>

NextPrefix == Normalize \/ Extend \/ NormalizeExtended

SpecPrefix == InitPrefix /\ [][NextPrefix]_vars

-----------------------------------------------------------------------------
(* calculateTreeLayout, layout.ts lines 11-131. *)

SUPER_ROOT_ID == "__SUPER_ROOT__"

\* lines 31-33
isLibraryFunc(node) ==
    \/ includes(toLowerCase(node.l), printf)
    \/ includes(toLowerCase(node.l), malloc)

KeySet(td) == Range(td.keys)

\* a mutant of IsRootCandidate: a node whose parent is missing from the map is
\* no root
IsRootCandidateNullOnly(td, id) ==
    /\ td.node[id].p \in {NULL, "null", UNDEFINED}
    /\ ~isLibraryFunc(td.node[id])

\* lines 34-37
IsRootCandidate(td, id) ==
    /\ \/ td.node[id].p = NULL
       \/ td.node[id].p = "null"
       \/ td.node[id].p = UNDEFINED
       \/ td.node[id].p \notin KeySet(td)
    /\ ~isLibraryFunc(td.node[id])

\* a mutant of Roots: no fallback when no key is a root
RootsWithoutFallback(td) ==
    SelectSeq(td.keys, LAMBDA id : IsRootCandidate(td, id))

\* a mutant of Roots: the keys are visited in the opposite order from the
\* second call on
RootsInCallOrder(td) ==
    LET found == SelectSeq(td.keys, LAMBDA id : IsRootCandidate(td, id))
        base == IF Len(found) = 0 THEN <<td.keys[1]>> ELSE found
    IN  IF runs = 0 THEN base ELSE [k \in 1..Len(base) |-> base[Len(base) + 1 - k]]

\* lines 24-45: the detected roots, with the fallback to the first key
Roots(td) ==
    LET found == SelectSeq(td.keys, LAMBDA id : IsRootCandidate(td, id))
    IN  IF Len(found) = 0 THEN <<td.keys[1]>> ELSE found

\* lines 76-77
NormalizedParent(td, id) ==
    IF td.node[id].p = "null" THEN NULL ELSE td.node[id].p

\* a mutant of IsAttached: a root is pushed into its parent's children too
IsAttachedWithRoots(td, roots, id) ==
    /\ NormalizedParent(td, id) \notin {NULL, UNDEFINED}
    /\ NormalizedParent(td, id) \in KeySet(td) \cup {SUPER_ROOT_ID}

\* lines 79-86: the node is pushed into the children of its parent, found in
\* the Map that holds the keys and the super root
IsAttached(td, roots, id) ==
    /\ NormalizedParent(td, id) \notin {NULL, UNDEFINED}
    /\ NormalizedParent(td, id) \in KeySet(td) \cup {SUPER_ROOT_ID}
    /\ id \notin Range(roots)

\* lines 74-92: the children array of hierarchy node x, in the order of the
\* pushes; the roots are pushed into the super root's after the linking pass
Children(td, roots, x) ==
    SelectSeq(td.keys, LAMBDA id : IsAttached(td, roots, id) /\ NormalizedParent(td, id) = x)
    \o (IF x = SUPER_ROOT_ID THEN roots ELSE <<>>)

RECURSIVE ChildEntries(_, _, _)
\* the hierarchy nodes d3.hierarchy makes of the children of the nodes of one
\* level, in order: [id, depth, parent]
ChildEntries(childrenOf, level, k) ==
    IF k > Len(level) THEN <<>>
    ELSE LET cs == childrenOf[level[k].id] IN
         [c \in 1..Len(cs) |->
             [id |-> cs[c], depth |-> level[k].depth + 1, parent |-> level[k].id]]
         \o ChildEntries(childrenOf, level, k + 1)

RECURSIVE BreadthFirst(_, _, _)
\* d3.hierarchy and node.descendants(): the nodes level by level. A children
\* graph with a cycle keeps d3.hierarchy walking for ever: past as many levels
\* as there are nodes the walk is cut and marked.
BreadthFirst(childrenOf, level, fuel) ==
    IF level = <<>> THEN [nodes |-> <<>>, diverges |-> FALSE]
    ELSE IF fuel = 0 THEN [nodes |-> <<>>, diverges |-> TRUE]
    ELSE LET rest == BreadthFirst(childrenOf, ChildEntries(childrenOf, level, 1), fuel - 1)
         IN  [nodes |-> level \o rest.nodes, diverges |-> rest.diverges]

\* lines 113-115: the hierarchy nodes kept in the node list
IsFinalNode(n) == n.id # SUPER_ROOT_ID

\* a mutant of IsFinalLink: the links from the super root are kept
IsAnyLink(n) == n.parent # NULL

\* lines 118-120: links() has one link per hierarchy node with a parent, from
\* the parent to it; those from the super root are dropped
IsFinalLink(n) == n.parent # NULL /\ n.parent # SUPER_ROOT_ID

\* line 101
LEVEL_HEIGHT == 130

Max(a, b) == IF a >= b THEN a ELSE b

\* root.height: the depth of the deepest hierarchy node
HeightOf(nodes) ==
    IF nodes = <<>> THEN 0
    ELSE CHOOSE d \in {nodes[k].depth : k \in DOMAIN nodes} :
             \A k \in DOMAIN nodes : nodes[k].depth <= d

\* line 107
TreeHeight(viewportHeight, depth) == Max(viewportHeight, depth * LEVEL_HEIGHT)

\* lines 109-110, d3.tree().size([w, h]): a node of depth d is put at
\* d * h / root.height (the viewports of the model make the division exact)
TreeY(depth, height, treeHeight) ==
    (depth * treeHeight) \div (IF height = 0 THEN 1 ELSE height)

\* line 124
ShiftUp(y) == Max(0, y - LEVEL_HEIGHT)

\* a node map that is missing (null or undefined)
MissingTree == [missing |-> TRUE]

\* line 16
IsEmptyMap(td) == td = MissingTree \/ Len(td.keys) = 0

\* a mutant of EmptyLayout: the hierarchy of the super root alone, unfiltered
SuperRootAlone ==
    [nodes |-> <<[id |-> SUPER_ROOT_ID, depth |-> 0, parent |-> NULL, treeY |-> 0, y |-> 0]>>,
     links |-> <<>>, roots |-> <<>>, diverges |-> FALSE]

\* line 17
EmptyLayout == [nodes |-> <<>>, links |-> <<>>, roots |-> <<>>, diverges |-> FALSE]

\* lines 11-131; the horizontal coordinates, which d3.tree computes from the
\* tree width, are left out. roots and treeY (the coordinate before the
\* shift of line 124) are kept beside the result for the properties.
calculateTreeLayout(td, viewportWidth, viewportHeight) ==
    IF IsEmptyMap(td) THEN EmptyLayout
    ELSE
        LET roots == Roots(td)
            childrenOf == [x \in KeySet(td) \cup {SUPER_ROOT_ID} |-> Children(td, roots, x)]
            walk == BreadthFirst(childrenOf,
                        <<[id |-> SUPER_ROOT_ID, depth |-> 0, parent |-> NULL]>>,
                        Len(td.keys) + 2)
            height == HeightOf(walk.nodes)
            treeHeight == TreeHeight(viewportHeight, height)
            finalNodes == SelectSeq(walk.nodes, IsFinalNode)
            links == SelectSeq(walk.nodes, IsFinalLink)
        IN  [nodes |-> [k \in 1..Len(finalNodes) |->
                          [id |-> finalNodes[k].id,
                           depth |-> finalNodes[k].depth,
                           parent |-> finalNodes[k].parent,
                           treeY |-> TreeY(finalNodes[k].depth, height, treeHeight),
                           y |-> ShiftUp(TreeY(finalNodes[k].depth, height, treeHeight))]],
             links |-> [k \in 1..Len(links) |->
                          [source |-> links[k].parent, target |-> links[k].id]],
             roots |-> roots,
             diverges |-> walk.diverges]

-----------------------------------------------------------------------------
(* The node maps calculateTreeLayout is tried on. The keys are n1, n2, ... in *)
(* this order: a map with its keys in another order is one of these with    *)
(* the ids renamed.                                                         *)

IdOf(k) == <<"n1", "n2", "n3", "n4", "n5">>[k]
PrintfLabel == <<"P", "r", "i", "n", "t", "F", "(", ")">>
MallocLabel == <<"x", "m", "a", "l", "l", "o", "c">>
DanglingId == "zz"

LayoutNodes(k) ==
    [l : {CallLabel, PrintfLabel, MallocLabel},
     p : {NULL, "null", UNDEFINED, DanglingId, SUPER_ROOT_ID} \cup {IdOf(j) : j \in 1..k},
     level : {0}, children : {<<>>}, type : {"standard"}]

LayoutTree(k, nd) == [keys |-> [j \in 1..k |-> IdOf(j)], node |-> nd]

InitLayout ==
    /\ pc = "map"
    /\ \E k \in 0..MaxNodes : \E nd \in [{IdOf(j) : j \in 1..k} -> LayoutNodes(k)] :
          treeData = LayoutTree(k, nd)
    /\ viewport = VisualizerViewport
    /\ layout = NoLayout
    /\ arr = <<>> /\ cleaned = <<>> /\ console = <<>>
    /\ raw = NoData /\ data = NoData /\ prev = NoData /\ runs = 0
    /\ simData = NoData /\ batches = <<>> /\ sanityLimit = 0
    /\ InitApp /\ ancestorWalk = NoWalk /\ retry = NoRetry

\* Visualizer.tsx line 44: the layout of the node map is computed
Layout ==
    /\ pc = "map"
    /\ layout' = calculateTreeLayout(treeData, viewport.width, viewport.height)
    /\ runs' = 1
    /\ pc' = "laid out"
    /\ UNCHANGED <<ui, ancestorWalk, retry, console, viewport, arr, cleaned, raw, data, prev, treeData,
                   simData, batches, sanityLimit>>

NextLayout == Layout

SpecLayout == InitLayout /\ [][NextLayout]_vars

-----------------------------------------------------------------------------
(* calculateTreeLayout called with viewports of several heights, and called *)
(* again with the same node map and viewport.                               *)

ViewportHeights == {100, 300, 1200}

Viewports == [width : {100}, height : ViewportHeights]

ViewportNodes(k) ==
    [l : {CallLabel, PrintfLabel},
     p : {NULL, DanglingId} \cup {IdOf(j) : j \in 1..k},
     level : {0}, children : {<<>>}, type : {"standard"}]

InitViewport ==
    /\ pc = "map"
    /\ \/ treeData = MissingTree
       \/ \E k \in 0..MaxNodes : \E nd \in [{IdOf(j) : j \in 1..k} -> ViewportNodes(k)] :
             treeData = LayoutTree(k, nd)
    /\ viewport \in Viewports
    /\ layout = NoLayout
    /\ arr = <<>> /\ cleaned = <<>> /\ console = <<>>
    /\ raw = NoData /\ data = NoData /\ prev = NoData /\ runs = 0
    /\ simData = NoData /\ batches = <<>> /\ sanityLimit = 0
    /\ InitApp /\ ancestorWalk = NoWalk /\ retry = NoRetry

\* the memo of Visualizer.tsx lines 40-45 recomputed: a second call with the
\* node map and the viewport of the first
LayoutAgain ==
    /\ pc = "laid out"
    /\ runs < MaxRuns
    /\ layout' = calculateTreeLayout(treeData, viewport.width, viewport.height)
    /\ runs' = runs + 1
    /\ UNCHANGED <<ui, ancestorWalk, retry, console, viewport, pc, arr, cleaned, raw, data, prev, treeData,
                   simData, batches, sanityLimit>>

NextViewport == Layout \/ LayoutAgain

SpecViewport == InitViewport /\ [][NextViewport]_vars

-----------------------------------------------------------------------------
(* handleBuild, App.tsx lines 825-900: the first batch and the loop that     *)
(* fetches the others. pc is "ready" before the build is started, "idle"    *)
(* until session.start returns, "fetching" while the loop runs and "done"   *)
(* after lines 893-894.                                                     *)

\* line 865
SanityLimit == 20

\* a mutant of MergeTrees: the map of the later batch replaces the document's
MergeTreesLaterOnly(a, b) == b

\* line 875, { ...prev.tree, ...moreData.tree }: the keys of prev in their
\* order, then the new keys of more; more's node wins on a common key
MergeTrees(a, b) ==
    [keys |-> a.keys \o SelectSeq(b.keys, LAMBDA id : id \notin DOMAIN a.node),
     node |-> [k \in DOMAIN a.node \cup DOMAIN b.node |->
                  IF k \in DOMAIN b.node THEN b.node[k] ELSE a.node[k]]]

\* lines 870-877, the updater handed to setSimData
MergeBatch(prevData, moreData) ==
    IF prevData.none THEN moreData
    ELSE [moreData EXCEPT !.steps = prevData.steps \o moreData.steps,
                          !.tree = MergeTrees(prevData.tree, moreData.tree)]

\* the console fragments of the steps: none, the empty string, and two others
Fragments == {"", "a", "b"}

BuildSteps ==
    {BareStep(NULL)} \cup
    {Step(TRUE, Num(0), TRUE, vs, n) :
        vs \in {EmptyVars, [k \in {"arr"} |-> Array1]}, n \in {NULL, "n1"}} \cup
    {StepWithOut(Step(TRUE, Num(0), TRUE, EmptyVars, NULL), out) : out \in Fragments}

\* a batch of a build holds no step or one
BuildStepSeqs == {<<>>} \cup {<<st>> : st \in BuildSteps}

BuildTrees ==
    {EmptyTree,
     [keys |-> <<"n1">>,
      node |-> [k \in {"n1"} |->
                  [l |-> CallLabel, p |-> NULL, level |-> 0, children |-> <<>>,
                   type |-> "solution"]]]}

InitBuild ==
    /\ pc = "ready"
    /\ simData = NoData /\ batches = <<>> /\ sanityLimit = 0
    /\ InitApp /\ ancestorWalk = NoWalk /\ retry = NoRetry
    /\ raw = NoData /\ data = NoData /\ prev = NoData /\ runs = 0
    /\ arr = <<>> /\ cleaned = <<>> /\ console = <<>>
    /\ treeData = EmptyTree /\ viewport = VisualizerViewport /\ layout = NoLayout

\* output with the fragment of step appended if it has one: the
\* if (step.out) of lines 853 and 908
WithFragment(output, step) ==
    IF step.out # UNDEFINED /\ step.out # "" THEN Append(output, step.out) ELSE output

\* lines 826-846: the build is started and awaits session.start
BuildBegins ==
    /\ pc = "ready"
    /\ isLoading' = TRUE
    /\ simData' = NoData
    /\ currentStepIdx' = -1
    /\ consoleOutput' = <<>>
    /\ pc' = "idle"
    /\ UNCHANGED <<isAutoPlaying, ancestorWalk, retry, console, viewport, arr, cleaned, raw,
                   data, prev, runs, treeData, layout, batches, sanityLimit>>

\* lines 826-839: no API key is configured, the build returns at once
ApiKeyMissing ==
    /\ pc = "ready"
    /\ isLoading' = FALSE
    /\ simData' = NoData
    /\ currentStepIdx' = -1
    /\ consoleOutput' = <<>>
    /\ pc' = "done"
    /\ UNCHANGED <<isAutoPlaying, ancestorWalk, retry, console, viewport, arr, cleaned, raw,
                   data, prev, runs, treeData, layout, batches, sanityLimit>>

\* lines 848-864 with session.start (geminiService.ts lines 178-232)
\* returning a batch
StartReturns ==
    /\ pc = "idle"
    /\ \E isComplete \in BOOLEAN : \E ss \in BuildStepSeqs : \E tr \in BuildTrees :
          raw' = Batch(ss, tr, isComplete)
    /\ LET result == NormalizeResult(raw')
       IN  data' = result.data /\ console' = console \o result.warnings
    /\ simData' = data'
    /\ currentStepIdx' = 0
    /\ consoleOutput' = IF Len(data'.steps) > 0
                        THEN IF WithFragment(<<>>, data'.steps[1]) # <<>>
                             THEN WithFragment(<<>>, data'.steps[1])
                             ELSE consoleOutput
                        ELSE consoleOutput
    /\ batches' = <<data'>>
    /\ sanityLimit' = 0
    /\ pc' = "fetching"
    /\ UNCHANGED <<isLoading, isAutoPlaying, ancestorWalk, retry, viewport, arr, cleaned, prev,
                   runs, treeData, layout>>

\* lines 848 and 887-891: session.start returned null
StartFails ==
    /\ pc = "idle"
    /\ pc' = "done"
    /\ isAutoPlaying' = FALSE /\ isLoading' = FALSE
    /\ UNCHANGED <<currentStepIdx, consoleOutput, ancestorWalk, retry, console, viewport,
                   arr, cleaned, raw, data, prev, runs, treeData, layout,
                   simData, batches, sanityLimit>>

\* a mutant of LoopContinues: the isComplete flag is not looked at
LoopContinuesPastComplete == sanityLimit < SanityLimit

\* the condition of the while of line 865
LoopContinues == ~batches[Len(batches)].isComplete /\ sanityLimit < SanityLimit

\* lines 865-885 with session.nextBatch (geminiService.ts lines 234-283)
\* returning a batch; prev is the document the updater of line 870 receives
NextBatchReturns ==
    /\ pc = "fetching"
    /\ LoopContinues
    /\ sanityLimit' = sanityLimit + 1
    /\ \E isComplete \in BOOLEAN :
          \/ /\ Len(batches) < MaxBatches
             /\ \E ss \in BuildStepSeqs : \E tr \in BuildTrees :
                   raw' = Batch(ss, tr, isComplete)
          \/ /\ Len(batches) >= MaxBatches
             /\ raw' = Batch(<<>>, EmptyTree, isComplete)
    /\ LET result == NormalizeResult(raw')
       IN  data' = result.data /\ console' = console \o result.warnings
    /\ prev' = simData
    /\ simData' = MergeBatch(prev', data')
    /\ batches' = Append(batches, data')
    /\ UNCHANGED <<ui, ancestorWalk, retry, viewport, pc, arr, cleaned, runs, treeData, layout>>

\* lines 865-868: session.nextBatch returned null, the loop breaks
NextBatchFails ==
    /\ pc = "fetching"
    /\ LoopContinues
    /\ sanityLimit' = sanityLimit + 1
    /\ pc' = "done"
    /\ isAutoPlaying' = FALSE /\ isLoading' = FALSE
    /\ UNCHANGED <<currentStepIdx, consoleOutput, ancestorWalk, retry, console, viewport,
                   arr, cleaned, raw, data, prev, runs, treeData, layout,
                   simData, batches>>

\* line 865: the condition of the while fails
LoopEnds ==
    /\ pc = "fetching"
    /\ ~LoopContinues
    /\ pc' = "done"
    /\ isAutoPlaying' = FALSE /\ isLoading' = FALSE
    /\ UNCHANGED <<currentStepIdx, consoleOutput, ancestorWalk, retry, console, viewport,
                   arr, cleaned, raw, data, prev, runs, treeData, layout,
                   simData, batches, sanityLimit>>

NextBuild ==
    \/ BuildBegins \/ ApiKeyMissing
    \/ StartReturns \/ StartFails \/ NextBatchReturns \/ NextBatchFails \/ LoopEnds

SpecBuild == InitBuild /\ [][NextBuild]_vars

\* session.start and session.nextBatch settle (every request of the SDK
\* responds or fails, and retryWithBackoff makes at most three), and the
\* event loop then resumes the handler
SpecBuildFair == SpecBuild /\ WF_vars(NextBuild)

Spec == SpecBuild

-----------------------------------------------------------------------------
(* The memo of App.tsx lines 957-989, which walks from the active node up   *)
(* the parent links, over the document of a build whose first batch was     *)
(* complete. The walk is a loop of the render: handlers run only between    *)
(* renders, never while it is walking.                                      *)

\* the node maps of the walked documents: none, or n1 with any parent
WalkTrees ==
    {EmptyTree} \cup
    {[keys |-> <<"n1">>,
      node |-> [k \in {"n1"} |->
                  [l |-> CallLabel, p |-> par, level |-> 0, children |-> <<>>,
                   type |-> "standard"]]] : par \in {NULL} \cup NodeIds}

\* handleBuild has stored the first batch, which session.start put through
\* normalizeData (App.tsx lines 848-852), and the batch was complete
InitWalk ==
    /\ pc = "loaded"
    /\ \E k \in 1..MaxRepairSteps : \E ss \in [1..k -> RepairSteps] : \E tr \in WalkTrees :
          raw = Batch(ss, tr, TRUE)
    /\ data = normalizeData(raw) /\ simData = data /\ batches = <<data>>
    /\ prev = NoData /\ runs = 0 /\ sanityLimit = 0
    /\ arr = <<>> /\ cleaned = <<>> /\ console = <<>>
    /\ treeData = EmptyTree /\ viewport = VisualizerViewport /\ layout = NoLayout
    /\ isLoading = FALSE /\ currentStepIdx = 0
    /\ consoleOutput = <<>> /\ isAutoPlaying = FALSE
    /\ ancestorWalk = NoWalk /\ retry = NoRetry

\* the document has a step at index i, counted from 0 as the code counts
HasStep(i) == ~simData.none /\ (i + 1) \in DOMAIN simData.steps

\* simData.steps[i]
StepAt(i) == simData.steps[i + 1]

\* line 952: currentStep?.n || null
activeNodeId == IF HasStep(currentStepIdx) THEN StepAt(currentStepIdx).n ELSE NULL

\* line 975, the condition of the while: curr && simData.tree[curr]
WalkContinues == ancestorWalk.curr # NULL /\ HasKey(simData.tree, ancestorWalk.curr)

\* line 977
ParentOf(tree, id) == tree.node[id].p

\* lines 957-974: a render whose memo is stale starts the walk at the active
\* node
WalkBegins ==
    /\ pc = "loaded"
    /\ ancestorWalk.pc = "idle" \/
          (ancestorWalk.pc = "finished" /\ ancestorWalk.idx # currentStepIdx)
    /\ ancestorWalk' = [pc |-> "walking", curr |-> activeNodeId, ancestors |-> {},
                        idx |-> currentStepIdx, turn |-> 0]
    /\ UNCHANGED <<ui, retry, console, viewport, pc, arr, cleaned, raw, data, prev, runs,
                   treeData, layout, simData, batches, sanityLimit>>

\* lines 975-978: one iteration of the while; turn is the parity of the
\* iterations made, so that an iteration is a step even when it leaves curr
\* and the set as they are
WalkStep ==
    /\ ancestorWalk.pc = "walking"
    /\ WalkContinues
    /\ ancestorWalk' =
          [ancestorWalk EXCEPT !.ancestors = @ \cup {ancestorWalk.curr},
                               !.curr = ParentOf(simData.tree, ancestorWalk.curr),
                               !.turn = 1 - @]
    /\ UNCHANGED <<ui, retry, console, viewport, pc, arr, cleaned, raw, data, prev, runs,
                   treeData, layout, simData, batches, sanityLimit>>

\* line 975: the condition of the while fails, the memo is computed
WalkEnds ==
    /\ ancestorWalk.pc = "walking"
    /\ ~WalkContinues
    /\ ancestorWalk' = [ancestorWalk EXCEPT !.pc = "finished"]
    /\ UNCHANGED <<ui, retry, console, viewport, pc, arr, cleaned, raw, data, prev, runs,
                   treeData, layout, simData, batches, sanityLimit>>

\* lines 902-912
handleNext ==
    /\ ancestorWalk.pc # "walking"
    /\ ~simData.none
    /\ currentStepIdx < Len(simData.steps) - 1
    /\ currentStepIdx' = currentStepIdx + 1
    /\ consoleOutput' = WithFragment(consoleOutput, StepAt(currentStepIdx + 1))
    /\ UNCHANGED <<isLoading, isAutoPlaying, ancestorWalk, retry, console, viewport, pc, arr,
                   cleaned, raw, data, prev, runs, treeData, layout, simData, batches,
                   sanityLimit>>

NextWalk == WalkBegins \/ WalkStep \/ WalkEnds \/ handleNext

\* the loop of the walk runs on once the render has entered it, and a stale
\* memo is recomputed by the render that follows the state change
SpecWalk == InitWalk /\ [][NextWalk]_vars /\ WF_vars(WalkBegins \/ WalkStep \/ WalkEnds)

-----------------------------------------------------------------------------
(* retryWithBackoff, geminiService.ts lines 135-176, as start and nextBatch  *)
(* call it: with the default maxRetries and initialDelay. retry.log holds    *)
(* the outcome of every invocation of the operation so far.                  *)

\* line 137
DefaultMaxRetries == 3
\* line 138
DefaultInitialDelay == 2000

\* line 162-163, the instruction sent in place of the prompt after a parse error
RegenerateInstruction == "CRITICAL: Your last response contained invalid JSON"

\* what the operation can throw
Errors ==
    [message429 : BOOLEAN, messageJSON : BOOLEAN, messageFailedToParse : BOOLEAN,
     status : {429, 500}, code : {429, 0}, none : {FALSE}]

\* what the operation can return: null for an empty response, or the batch
Results == {NULL, "batch"}

\* the outcome of one invocation
Returned(value) == [ok |-> TRUE, value |-> value, error |-> NoError]
Threw(error) == [ok |-> FALSE, value |-> NULL, error |-> error]

\* lines 145-148
isRateLimit(error) == error.message429 \/ error.status = 429 \/ error.code = 429

\* lines 150-152
isParseError(error) == error.messageJSON \/ error.messageFailedToParse

\* a mutant of ShouldRetry: the class of the failure is not looked at
ShouldRetryAnyFailure(error, i, maxRetries) == i < maxRetries - 1

\* line 154
ShouldRetry(error, i, maxRetries) ==
    (isRateLimit(error) \/ isParseError(error)) /\ i < maxRetries - 1

InitRetry ==
    /\ pc = "session"
    /\ arr = <<>> /\ cleaned = <<>> /\ console = <<>>
    /\ raw = NoData /\ data = NoData /\ prev = NoData /\ runs = 0
    /\ treeData = EmptyTree /\ viewport = VisualizerViewport /\ layout = NoLayout
    /\ simData = NoData /\ batches = <<>> /\ sanityLimit = 0
    /\ InitApp /\ ancestorWalk = NoWalk /\ retry = NoRetry

\* lines 135-143: the call, and the first pass through the head of the for
RetryBegins ==
    /\ retry.pc = "idle"
    /\ retry' = [NoRetry EXCEPT !.pc = IF 0 < DefaultMaxRetries THEN "calling" ELSE "thrown",
                                !.delay = DefaultInitialDelay]
    /\ UNCHANGED <<ui, ancestorWalk, console, viewport, pc, arr, cleaned, raw, data, prev,
                   runs, treeData, layout, simData, batches, sanityLimit>>

\* line 144: the awaited operation resolves, and its value is returned
OperationReturns ==
    /\ retry.pc = "calling"
    /\ \E value \in Results :
          retry' = [retry EXCEPT !.log = Append(@, Returned(value)),
                                 !.result = value, !.pc = "returned"]
    /\ UNCHANGED <<ui, ancestorWalk, console, viewport, pc, arr, cleaned, raw, data, prev,
                   runs, treeData, layout, simData, batches, sanityLimit>>

\* lines 145-170: the awaited operation rejects; the catch either notes the
\* reason and starts the wait, or rethrows
OperationThrows ==
    /\ retry.pc = "calling"
    /\ \E error \in Errors :
          retry' =
              IF ShouldRetry(error, retry.i, DefaultMaxRetries)
              THEN [retry EXCEPT !.log = Append(@, Threw(error)),
                                 !.retryReason = IF isParseError(error)
                                                 THEN RegenerateInstruction
                                                 ELSE UNDEFINED,
                                 !.pc = "waiting"]
              ELSE [retry EXCEPT !.log = Append(@, Threw(error)),
                                 !.error = error, !.pc = "thrown"]
    /\ UNCHANGED <<ui, ancestorWalk, console, viewport, pc, arr, cleaned, raw, data, prev,
                   runs, treeData, layout, simData, batches, sanityLimit>>

\* lines 166-167 and 143: the timer fires, the delay doubles, and the for
\* goes round; line 173 is reached if the for is left
BackoffElapses ==
    /\ retry.pc = "waiting"
    /\ retry' = [retry EXCEPT !.delay = @ * 2, !.i = @ + 1,
                              !.pc = IF retry.i + 1 < DefaultMaxRetries
                                     THEN "calling" ELSE "thrown"]
    /\ UNCHANGED <<ui, ancestorWalk, console, viewport, pc, arr, cleaned, raw, data, prev,
                   runs, treeData, layout, simData, batches, sanityLimit>>

NextRetry == RetryBegins \/ OperationReturns \/ OperationThrows \/ BackoffElapses

SpecRetry == InitRetry /\ [][NextRetry]_vars

-----------------------------------------------------------------------------
(* Playback, App.tsx lines 902-947: the Next and Prev handlers, the autoplay *)
(* toggle and the autoplay effect, interleaved with the build. A handler     *)
(* runs to its end before the next event is taken, and reads the state of    *)
(* the latest render.                                                        *)

RECURSIVE RebuiltOutput(_, _)
\* lines 921-925: the fragments of steps[0..nextIdx], collected in order
RebuiltOutput(steps, nextIdx) ==
    IF nextIdx < 0 THEN <<>>
    ELSE WithFragment(RebuiltOutput(steps, nextIdx - 1), steps[nextIdx + 1])

\* lines 914-931
handlePrev ==
    /\ ancestorWalk.pc # "walking"
    /\ IF currentStepIdx > 0
       THEN /\ currentStepIdx' = currentStepIdx - 1
            /\ consoleOutput' = IF ~simData.none
                                THEN RebuiltOutput(simData.steps, currentStepIdx - 1)
                                ELSE consoleOutput
       ELSE UNCHANGED <<currentStepIdx, consoleOutput>>
    /\ isAutoPlaying' = FALSE
    /\ UNCHANGED <<isLoading, ancestorWalk, retry, console, viewport, pc, arr, cleaned, raw,
                   data, prev, runs, treeData, layout, simData, batches, sanityLimit>>

\* onToggleAutoPlay, lines 1127 and 1266
ToggleAutoPlay ==
    /\ ancestorWalk.pc # "walking"
    /\ isAutoPlaying' = ~isAutoPlaying
    /\ UNCHANGED <<isLoading, currentStepIdx, consoleOutput, ancestorWalk, retry, console,
                   viewport, pc, arr, cleaned, raw, data, prev, runs, treeData, layout,
                   simData, batches, sanityLimit>>

\* lines 936, 940-943: the interval of the autoplay effect fires
AutoPlayTick ==
    /\ isAutoPlaying
    /\ handleNext

\* lines 936-939: the autoplay effect finds the last step reached
AutoPlayStops ==
    /\ isAutoPlaying /\ ~simData.none
    /\ currentStepIdx >= Len(simData.steps) - 1
    /\ isAutoPlaying' = FALSE
    /\ UNCHANGED <<isLoading, currentStepIdx, consoleOutput, ancestorWalk, retry, console,
                   viewport, pc, arr, cleaned, raw, data, prev, runs, treeData, layout,
                   simData, batches, sanityLimit>>

NextPlayback ==
    \/ NextBuild
    \/ handleNext \/ handlePrev \/ ToggleAutoPlay \/ AutoPlayTick \/ AutoPlayStops

SpecPlayback == InitBuild /\ [][NextPlayback]_vars

-----------------------------------------------------------------------------
(* Properties of cleanArray. *)

\* what the sanitizer is to do with each atom, written out
ExpectedAtom(x) ==
    IF x \in {Garbage1, Random1, Uninit1} THEN Str(<<"?">>) ELSE x

RECURSIVE SanitizedAs(_, _)
\* out has the shape of in, position by position, with the noise strings
\* replaced and everything else kept
SanitizedAs(in, out) ==
    /\ DOMAIN out = DOMAIN in
    /\ \A k \in DOMAIN in :
          IF IsArray(in[k])
          THEN IsArray(out[k]) /\ SanitizedAs(in[k].e, out[k].e)
          ELSE out[k] = ExpectedAtom(in[k])

RECURSIVE Depth(_)
Depth(a) ==
    IF \A k \in DOMAIN a : ~IsArray(a[k]) THEN 1
    ELSE 1 + (CHOOSE d \in 1..(MaxSize + 1) :
                /\ \E k \in DOMAIN a : IsArray(a[k]) /\ Depth(a[k].e) = d
                /\ \A k \in DOMAIN a : IsArray(a[k]) => Depth(a[k].e) <= d)

\* C8: cleanArray returns an array of the same shape in which every string
\* element containing garbage, random or uninitialized, in any case, is "?"
\* and every other element, at any nesting depth, is kept in its position.
C8_CleanArrayShapeAndMarks ==
    pc = "cleaned" => SanitizedAs(arr, cleaned)

\* C8's case: a nested array holding a noise string written in capitals below
\* the top level, next to an element that is kept
C8_Witness ==
    /\ pc = "cleaned"
    /\ Depth(arr) >= 3
    /\ \E k \in DOMAIN arr : arr[k] = Plain5
    /\ \E k \in DOMAIN arr :
          /\ IsArray(arr[k])
          /\ \E j \in DOMAIN arr[k].e :
                /\ IsArray(arr[k].e[j])
                /\ \E m \in DOMAIN arr[k].e[j].e : arr[k].e[j].e[m] = Random1
    /\ cleaned # arr

-----------------------------------------------------------------------------
(* Properties of normalizeData: the variable mappings. *)

\* the variable mapping of a step; a step without one holds no name
Mapping(step) == IF step.hasS /\ step.hasVars THEN step.vars ELSE EmptyVars

\* the generator supplied an array under name v at step i
SuppliesArray(i, v) ==
    v \in DOMAIN Mapping(raw.steps[i]) /\ IsArray(Mapping(raw.steps[i])[v])

\* the generator supplied a value that is no array under name v at step i
SuppliesScalar(i, v) ==
    v \in DOMAIN Mapping(raw.steps[i]) /\ ~IsArray(Mapping(raw.steps[i])[v])

\* the array supplied under v at the last step at or before j that supplies one
LastSupplied(j, v) ==
    LET k == CHOOSE x \in 1..j :
                 SuppliesArray(x, v) /\ \A y \in (x + 1)..j : ~SuppliesArray(y, v)
    IN  Mapping(raw.steps[k])[v]

\* the two arrays of the batches, sanitized by hand
ExpectedArray(a) ==
    IF a = Array1 THEN Arr(<<Num(1), Str(<<"?">>)>>)
    ELSE Arr(<<Arr(<<Str(<<"?">>), Num(2)>>)>>)

\* two depths that denote the same number, whichever way each is written
SameDepth(a, b) == a = b \/ {a, b} = {Num(1), Str(<<"1">>)}

\* C2 as stated: if v is array-valued at step i then every later step j holds
\* v after the pass, with the sanitized array last supplied at or before j.
C2_Original ==
    pc = "normalized" =>
        \A i, j \in DOMAIN raw.steps : \A v \in VarNames :
            (i < j /\ SuppliesArray(i, v)) =>
                /\ v \in DOMAIN Mapping(data.steps[j])
                /\ Mapping(data.steps[j])[v] = ExpectedArray(LastSupplied(j, v))

\* C2 as amended: if v is array-valued at step i then every later step j that
\* has a snapshot holds v after the pass, and unless step j itself supplies a
\* value that is no array under v, the value is the sanitized array last
\* supplied at or before j.
C2_ArrayPersistence ==
    pc = "normalized" =>
        \A i, j \in DOMAIN raw.steps : \A v \in VarNames :
            (i < j /\ SuppliesArray(i, v) /\ raw.steps[j].hasS) =>
                /\ v \in DOMAIN Mapping(data.steps[j])
                /\ ~SuppliesScalar(j, v) =>
                      Mapping(data.steps[j])[v] = ExpectedArray(LastSupplied(j, v))

\* C2's case: an array supplied at step 1, another at step 2, and a third step
\* with a snapshot that lacks the name and received the second array
C2_Witness ==
    /\ pc = "normalized"
    /\ Len(raw.steps) = 3
    /\ SuppliesArray(1, "arr") /\ SuppliesArray(2, "arr")
    /\ Mapping(raw.steps[1])["arr"] # Mapping(raw.steps[2])["arr"]
    /\ raw.steps[3].hasS /\ "arr" \notin DOMAIN Mapping(raw.steps[3])
    /\ "arr" \in DOMAIN Mapping(data.steps[3])
    /\ Mapping(data.steps[3])["arr"] = ExpectedArray(Mapping(raw.steps[2])["arr"])

\* steps i-1 and i both have snapshots, and v is a scalar of step i-1 as the
\* pass left it that the generator did not supply at step i
ScalarMissingAt(i, v) ==
    /\ i > 1
    /\ raw.steps[i - 1].hasS /\ raw.steps[i].hasS
    /\ v \in DOMAIN Mapping(data.steps[i - 1])
    /\ ~IsArray(Mapping(data.steps[i - 1])[v])
    /\ v \notin DOMAIN Mapping(raw.steps[i])

\* an array was supplied under name v at some step before i
ArraySeenBefore(i, v) == \E k \in 1..(i - 1) : SuppliesArray(k, v)

\* C3 as stated: between two steps of equal depth, a scalar of step i-1 that
\* step i lacks is in step i after the pass, with the value of step i-1.
C3_Original ==
    pc = "normalized" =>
        \A i \in DOMAIN raw.steps : \A v \in VarNames :
            (ScalarMissingAt(i, v) /\ SameDepth(raw.steps[i - 1].h, raw.steps[i].h)) =>
                /\ v \in DOMAIN Mapping(data.steps[i])
                /\ Mapping(data.steps[i])[v] = Mapping(data.steps[i - 1])[v]

\* C3 as amended: between two steps of equal depth, a scalar of step i-1 that
\* step i lacks, and under whose name no array was supplied at an earlier
\* step, is in step i after the pass, with the value of step i-1.
C3_ScalarCarryForward ==
    pc = "normalized" =>
        \A i \in DOMAIN raw.steps : \A v \in VarNames :
            (/\ ScalarMissingAt(i, v)
             /\ SameDepth(raw.steps[i - 1].h, raw.steps[i].h)
             /\ ~ArraySeenBefore(i, v)) =>
                /\ v \in DOMAIN Mapping(data.steps[i])
                /\ Mapping(data.steps[i])[v] = Mapping(data.steps[i - 1])[v]

\* C3's case: a scalar supplied at step 1 and at no later step reaches step 3
\* through step 2, all three of one depth
C3_Witness ==
    /\ pc = "normalized"
    /\ Len(raw.steps) = 3
    /\ SuppliesScalar(1, "arr")
    /\ ScalarMissingAt(2, "arr") /\ ScalarMissingAt(3, "arr")
    /\ SameDepth(raw.steps[1].h, raw.steps[2].h)
    /\ SameDepth(raw.steps[2].h, raw.steps[3].h)
    /\ Mapping(data.steps[3])["arr"] = Mapping(raw.steps[1])["arr"]

DenotedNumber(h) == IF h = Num(0) THEN 0 ELSE 1

\* C18: the comparison of depths that gates the inheritance of scalars looks
\* at the number denoted, not at its type: a scalar of step i-1 that step i
\* lacks (under a name that never held an array) is inherited when the two
\* depths denote the same number, be it as 1 and "1", and is not when they
\* denote different numbers.
C18_DepthTypeTolerant ==
    pc = "normalized" =>
        \A i \in DOMAIN raw.steps : \A v \in VarNames :
            (ScalarMissingAt(i, v) /\ ~ArraySeenBefore(i, v)) =>
                IF DenotedNumber(raw.steps[i - 1].h) = DenotedNumber(raw.steps[i].h)
                THEN /\ v \in DOMAIN Mapping(data.steps[i])
                     /\ Mapping(data.steps[i])[v] = Mapping(data.steps[i - 1])[v]
                ELSE v \notin DOMAIN Mapping(data.steps[i])

\* C18's case: a scalar supplied at depth 1 (a number) is inherited by the
\* next step, of depth "1" (a string), and not by the one after it, of depth 0
C18_Witness ==
    /\ pc = "normalized"
    /\ Len(raw.steps) = 3
    /\ raw.steps[1].h = Num(1) /\ SuppliesScalar(1, "arr")
    /\ raw.steps[2].h = Str(<<"1">>) /\ ScalarMissingAt(2, "arr")
    /\ raw.steps[3].h = Num(0) /\ ScalarMissingAt(3, "arr")
    /\ Mapping(data.steps[2])["arr"] = Mapping(raw.steps[1])["arr"]
    /\ "arr" \notin DOMAIN Mapping(data.steps[3])

\* the strings of the batches that hold one of the three words
NoiseAtoms == {Garbage1, Random1, Uninit1, Str(garbage)}

RECURSIVE NoiseFree(_)
\* no element of the array, at any nesting depth, is one of the noise strings
NoiseFree(a) ==
    \A k \in DOMAIN a :
        IF IsArray(a[k]) THEN NoiseFree(a[k].e) ELSE a[k] \notin NoiseAtoms

\* C19: after the pass no array in the mapping of a step that has a snapshot
\* holds, at any nesting depth, a string with garbage, random or
\* uninitialized in it, whether the step supplied the array or the pass
\* backfilled it from the running table.
C19_NoNoiseInArrays ==
    pc = "normalized" =>
        \A i \in DOMAIN data.steps :
            data.steps[i].hasS =>
                \A v \in DOMAIN Mapping(data.steps[i]) :
                    IsArray(Mapping(data.steps[i])[v]) =>
                        NoiseFree(Mapping(data.steps[i])[v].e)

\* C19's case: a nested array with a noise string is supplied at step 1 and
\* backfilled into step 2, and step 3 supplies another array with one
C19_Witness ==
    /\ pc = "normalized"
    /\ Len(raw.steps) = 3
    /\ SuppliesArray(1, "arr") /\ Mapping(raw.steps[1])["arr"] = Array2
    /\ raw.steps[2].hasS /\ "arr" \notin DOMAIN Mapping(raw.steps[2])
    /\ SuppliesArray(3, "arr") /\ Mapping(raw.steps[3])["arr"] = Array1
    /\ IsArray(Mapping(data.steps[2])["arr"])
    /\ Mapping(data.steps[3])["arr"] # Array1

\* steps i..j all have snapshots, and their depths denote one number
SameFrame(i, j) ==
    \A k \in i..j :
        /\ raw.steps[k].hasS
        /\ DenotedNumber(raw.steps[k].h) = DenotedNumber(raw.steps[i].h)

\* the generator supplied a value under name v at step k
Supplies(k, v) == v \in DOMAIN Mapping(raw.steps[k])

\* the last step at or before k at which the generator supplied v
LastSupplyOf(k, v) ==
    CHOOSE m \in 1..k : Supplies(m, v) /\ \A y \in (m + 1)..k : ~Supplies(y, v)

\* the value the generator supplied most recently under v at or before step
\* k, an array in its sanitized form
MostRecentValue(k, v) ==
    LET x == Mapping(raw.steps[LastSupplyOf(k, v)])[v]
    IN  IF IsArray(x) THEN ExpectedArray(x) ELSE x

\* C21 as stated: in a run of steps i..j with snapshots of one depth, a
\* scalar of step i is in the mapping of every step i+1..j after the pass,
\* with the value supplied most recently.
C21_Original ==
    pc = "normalized" =>
        \A i, j \in DOMAIN raw.steps : \A v \in VarNames :
            (/\ i < j /\ SameFrame(i, j)
             /\ v \in DOMAIN Mapping(data.steps[i])
             /\ ~IsArray(Mapping(data.steps[i])[v])) =>
                \A k \in (i + 1)..j :
                    /\ v \in DOMAIN Mapping(data.steps[k])
                    /\ Mapping(data.steps[k])[v] = MostRecentValue(k, v)

\* C21 as amended: in such a run the name is in the mapping of every step
\* i+1..j after the pass; its value is the one supplied most recently, unless
\* that is a scalar supplied after an array of the same name: then a step
\* that lacks the name has the last array, sanitized.
C21_NoFlicker ==
    pc = "normalized" =>
        \A i, j \in DOMAIN raw.steps : \A v \in VarNames :
            (/\ i < j /\ SameFrame(i, j)
             /\ v \in DOMAIN Mapping(data.steps[i])
             /\ ~IsArray(Mapping(data.steps[i])[v])) =>
                \A k \in (i + 1)..j :
                    /\ v \in DOMAIN Mapping(data.steps[k])
                    /\ Mapping(data.steps[k])[v] =
                          IF ~Supplies(k, v) /\ ArraySeenBefore(k, v)
                          THEN ExpectedArray(LastSupplied(k, v))
                          ELSE MostRecentValue(k, v)

\* C21's case: three steps of one depth, written 1, "1" and 1; the first
\* supplies a scalar, the second another, the third none and has the second
C21_Witness ==
    /\ pc = "normalized"
    /\ Len(raw.steps) = 3
    /\ raw.steps[1].h = Num(1) /\ raw.steps[2].h = Str(<<"1">>) /\ raw.steps[3].h = Num(1)
    /\ SuppliesScalar(1, "arr") /\ SuppliesScalar(2, "arr")
    /\ Mapping(raw.steps[1])["arr"] # Mapping(raw.steps[2])["arr"]
    /\ raw.steps[3].hasS /\ ~Supplies(3, "arr")
    /\ Mapping(data.steps[3])["arr"] = Mapping(raw.steps[2])["arr"]

\* C24: normalizeData never changes a value the generator supplied: a name of
\* a step's raw mapping holds, after the pass, the raw value when that is no
\* array (a string containing garbage included) and the sanitized raw array
\* when it is one; backfill and carry-forward only add absent names.
C24_SuppliedValuesKept ==
    pc = "normalized" =>
        \A i \in DOMAIN raw.steps : \A v \in DOMAIN Mapping(raw.steps[i]) :
            /\ v \in DOMAIN Mapping(data.steps[i])
            /\ Mapping(data.steps[i])[v] =
                   IF IsArray(Mapping(raw.steps[i])[v])
                   THEN ExpectedArray(Mapping(raw.steps[i])[v])
                   ELSE Mapping(raw.steps[i])[v]

\* C24's case: an array, then at the same depth the string garbage under the
\* same name, kept against the backfill, then a step that supplies the other
\* number where the carry-forward had one to offer
C24_Witness ==
    /\ pc = "normalized"
    /\ Len(raw.steps) = 3
    /\ raw.steps[1].h = raw.steps[2].h /\ raw.steps[2].h = raw.steps[3].h
    /\ SuppliesArray(1, "arr")
    /\ SuppliesScalar(2, "arr") /\ Mapping(raw.steps[2])["arr"] = Scalar2
    /\ SuppliesScalar(3, "arr") /\ Mapping(raw.steps[3])["arr"] = Scalar1
    /\ Mapping(data.steps[2])["arr"] = Scalar2
    /\ Mapping(data.steps[3])["arr"] = Scalar1

-----------------------------------------------------------------------------
(* Properties of normalizeData: the node map. *)

\* the ids the pass registered: keys of the map that the generator's map lacks
Synthesized == DOMAIN data.tree.node \ DOMAIN raw.tree.node

\* the step whose reference made the pass register id: the first step with a
\* snapshot that names it
Origin(id) ==
    CHOOSE i \in DOMAIN raw.steps :
        /\ raw.steps[i].hasS /\ raw.steps[i].n = id
        /\ \A k \in 1..(i - 1) : ~(raw.steps[k].hasS /\ raw.steps[k].n = id)

\* the keys of the map when step i is reached: the generator's, and the ids
\* registered for the steps before i
KeysBefore(i) ==
    DOMAIN raw.tree.node \cup
    {raw.steps[k].n : k \in {x \in 1..(i - 1) : raw.steps[x].hasS /\ raw.steps[x].n # NULL}}

\* the parent the node registered for step i is to have: the node reference of
\* step i-1 if there is one and the map holds it, and null otherwise
ResolvedParent(i) ==
    IF i > 1 /\ raw.steps[i - 1].n # NULL /\ raw.steps[i - 1].n \in KeysBefore(i)
    THEN raw.steps[i - 1].n ELSE NULL

Count(seq, x) == Cardinality({k \in DOMAIN seq : seq[k] = x})

\* C1: after the pass, every step's node reference that is not null, also
\* that of a step without a snapshot, is a key of the batch's node map.
C1_NoDanglingReference ==
    pc = "normalized" =>
        \A i \in DOMAIN data.steps :
            data.steps[i].n # NULL => HasKey(data.tree, data.steps[i].n)

\* C6: a node the pass registers for step i has as parent the node reference
\* of step i-1 if that is a key of the map and null otherwise, never an id the
\* map lacks; its level is the parent's plus one, or 0 without a parent; its
\* type is standard; its children list starts empty, so that all it holds are
\* nodes registered later under it.
C6_SynthesizedNode ==
    pc = "normalized" =>
        \A id \in Synthesized :
            LET nd == data.tree.node[id]
                par == ResolvedParent(Origin(id))
            IN  /\ nd.p = par
                /\ nd.p = NULL \/ HasKey(data.tree, nd.p)
                /\ nd.level = (IF par = NULL THEN 0 ELSE data.tree.node[par].level + 1)
                /\ nd.type = "standard"
                /\ \A c \in Range(nd.children) :
                      c \in Synthesized /\ Origin(c) > Origin(id)
                      /\ data.tree.node[c].p = id

\* the registered node id got a parent that the map held when it was stored
HasResolvedParent(id) == ResolvedParent(Origin(id)) # NULL

\* how often the generator's map lists id among the children of par
RawCount(par, id) ==
    IF par \in DOMAIN raw.tree.node THEN Count(raw.tree.node[par].children, id) ELSE 0

\* C7 as stated: the resolved parent's children list holds the registered id
\* exactly once, whatever the generator's list held, and a second pass leaves
\* the node map as it is.
C7_Original ==
    pc = "normalized" =>
        /\ \A id \in Synthesized :
              HasResolvedParent(id) =>
                  Count(data.tree.node[ResolvedParent(Origin(id))].children, id) = 1
        /\ runs >= 2 => data.tree = prev.tree

\* C7 as amended: the resolved parent's children list holds the registered id
\* as often as the generator's list did, and once if that list did not hold
\* it (the pass appends it at most once and removes nothing), and a second
\* pass leaves the node map as it is.
C7_IdempotentAppend ==
    pc = "normalized" =>
        /\ \A id \in Synthesized :
              HasResolvedParent(id) =>
                  LET par == ResolvedParent(Origin(id)) IN
                  Count(data.tree.node[par].children, id) =
                      IF RawCount(par, id) = 0 THEN 1 ELSE RawCount(par, id)
        /\ runs >= 2 => data.tree = prev.tree

\* C7's case: the pass has run twice over a batch in which the generator's
\* map already lists, once, the id the pass registers under that parent
C7_Witness ==
    /\ pc = "normalized" /\ runs = 2
    /\ \E id \in Synthesized :
          /\ HasResolvedParent(id)
          /\ RawCount(ResolvedParent(Origin(id)), id) = 1
          /\ data.tree.node[id].p = ResolvedParent(Origin(id))
          /\ Count(data.tree.node[ResolvedParent(Origin(id))].children, id) = 1

\* the ids met on the way up from id: its parent, the parent's parent, and so
\* on while the id is a key of the map, for at most fuel links
RECURSIVE AncestorsOf(_, _, _)
AncestorsOf(tree, id, fuel) ==
    IF fuel = 0 \/ ~HasKey(tree, id) \/ tree.node[id].p = NULL THEN {}
    ELSE {tree.node[id].p} \cup AncestorsOf(tree, tree.node[id].p, fuel - 1)

\* no node of the map is its own ancestor via parent links, its own parent
\* included, and none lists itself among its children
Acyclic(tree) ==
    \A id \in DOMAIN tree.node :
        /\ tree.node[id].p # id
        /\ id \notin Range(tree.node[id].children)
        /\ id \notin AncestorsOf(tree, id, Len(tree.keys))

\* every parent the generator's map names is a key of it
ParentsResolve(tree) ==
    \A id \in DOMAIN tree.node : tree.node[id].p = NULL \/ HasKey(tree, tree.node[id].p)

\* every node reference of the batch sits on a step with a snapshot
ReferencesHaveSnapshots(steps) ==
    \A i \in DOMAIN steps : steps[i].n # NULL => steps[i].hasS

\* C25: if the node map given to normalizeData has no node that is its own
\* ancestor via parent links (and none that lists itself as a child), then
\* after the pass over any step sequence, steps without a snapshot that carry
\* a node reference included, no node is its own parent, none lists itself in
\* its children, and the parent links contain no cycle.
C25_RepairKeepsAcyclic ==
    (pc = "normalized" /\ Acyclic(raw.tree)) => Acyclic(data.tree)

\* what holds of C25: the same, for batches whose references all sit on steps
\* with a snapshot and whose map names no parent it lacks
AcyclicWhenParentsResolve ==
    (/\ pc = "normalized"
     /\ Acyclic(raw.tree) /\ ParentsResolve(raw.tree)
     /\ ReferencesHaveSnapshots(raw.steps)) => Acyclic(data.tree)

-----------------------------------------------------------------------------
(* Properties of normalizeData run again over an extended batch. *)

\* the ids the first run registered for the steps of the prefix
CreatedForPrefix == DOMAIN prev.tree.node \ DOMAIN raw.tree.node

\* seq a is an initial part of seq b
IsPrefixOf(a, b) == Len(a) <= Len(b) /\ \A k \in DOMAIN a : a[k] = b[k]

\* the steps of the prefix are after the second run what they were after the
\* first
PrefixStepsKept ==
    \A i \in DOMAIN prev.steps :
        /\ data.steps[i].hasS = prev.steps[i].hasS
        /\ Mapping(data.steps[i]) = Mapping(prev.steps[i])
        /\ data.steps[i].n = prev.steps[i].n

\* C11 as stated: after normalizeData has run over a batch and then over its
\* result with a suffix appended, the mappings of the steps of the prefix and
\* the nodes registered for the prefix are what they were after the first run.
C11_Original ==
    pc = "renormalized" =>
        /\ PrefixStepsKept
        /\ \A id \in CreatedForPrefix : data.tree.node[id] = prev.tree.node[id]

\* C11 as amended: the mappings of the steps of the prefix are what they were
\* after the first run, and a node registered for the prefix keeps its label,
\* parent, level and type; its children list is only extended, by ids the
\* second run registered for steps of the suffix.
C11_PrefixStability ==
    pc = "renormalized" =>
        /\ PrefixStepsKept
        /\ \A id \in CreatedForPrefix :
              LET old == prev.tree.node[id]
                  new == data.tree.node[id]
              IN  /\ new.l = old.l /\ new.p = old.p
                  /\ new.level = old.level /\ new.type = old.type
                  /\ IsPrefixOf(old.children, new.children)
                  /\ \A k \in (Len(old.children) + 1)..Len(new.children) :
                        new.children[k] \notin DOMAIN prev.tree.node

\* C11's case: the first run backfilled an array into a step of the prefix
\* and registered a node for it; the suffix names that node again, supplies
\* another value under the name, and names a node no map held
C11_Witness ==
    /\ pc = "renormalized"
    /\ Len(prev.steps) = 2 /\ Len(data.steps) = 3
    /\ \E i \in DOMAIN prev.steps :
          /\ raw.steps[i].hasS /\ "arr" \notin DOMAIN Mapping(raw.steps[i])
          /\ "arr" \in DOMAIN Mapping(prev.steps[i])
    /\ CreatedForPrefix # {}
    /\ DOMAIN data.tree.node # DOMAIN prev.tree.node

\* C12: a step without a snapshot comes out of normalizeData as it went in,
\* and every later step that has a snapshot is still reconciled: an array it
\* supplies is sanitized, an array of the running table it lacks is
\* backfilled, also one recorded before the skipped step, and the node it
\* names is a key of the map.
C12_SkippedStep ==
    pc = "normalized" =>
        \A i \in DOMAIN raw.steps :
            ~raw.steps[i].hasS =>
                /\ data.steps[i] = raw.steps[i]
                /\ \A j \in (i + 1)..Len(raw.steps) :
                      raw.steps[j].hasS =>
                          /\ \A v \in VarNames :
                                /\ SuppliesArray(j, v) =>
                                      Mapping(data.steps[j])[v] =
                                          ExpectedArray(Mapping(raw.steps[j])[v])
                                /\ (ArraySeenBefore(j, v)
                                    /\ v \notin DOMAIN Mapping(raw.steps[j])) =>
                                      /\ v \in DOMAIN Mapping(data.steps[j])
                                      /\ Mapping(data.steps[j])[v] =
                                            ExpectedArray(LastSupplied(j, v))
                          /\ data.steps[j].n # NULL =>
                                HasKey(data.tree, data.steps[j].n)

\* C12's case: an array is supplied, a step without a snapshot follows, and
\* the step after it, which lacks the array and names a node no map holds,
\* has the sanitized array and its node after the pass
C12_Witness ==
    /\ pc = "normalized"
    /\ Len(raw.steps) = 3
    /\ SuppliesArray(1, "arr")
    /\ ~raw.steps[2].hasS
    /\ raw.steps[3].hasS /\ raw.steps[3].n = "n2"
    /\ ~HasKey(raw.tree, "n2")
    /\ data.steps[2] = raw.steps[2]
    /\ Mapping(data.steps[3])["arr"] = Arr(<<Num(1), Str(<<"?">>)>>)
    /\ HasKey(data.tree, "n2")

-----------------------------------------------------------------------------
(* Properties of calculateTreeLayout. *)

NodeIdsOf(l) == {l.nodes[k].id : k \in DOMAIN l.nodes}

RECURSIVE ReachedFrom(_, _, _)
\* the ids reached from the ids of S by following links, source to target,
\* at most n more times
ReachedFrom(l, S, n) ==
    LET next == S \cup {l.links[k].target : k \in {x \in DOMAIN l.links : l.links[x].source \in S}}
    IN  IF n = 0 \/ next = S THEN S ELSE ReachedFrom(l, next, n - 1)

\* the ids one link away from id
TargetsOf(l, id) == {l.links[k].target : k \in {x \in DOMAIN l.links : l.links[x].source = id}}

\* C5: for every node map, also one with dangling parents, self-parents and
\* parent cycles, the call returns nodes and links that form a forest: no id
\* is twice in the node list, no node is the target of two links, and
\* following links from a node never leads back to it.
C5_Forest ==
    pc = "laid out" =>
        /\ ~layout.diverges
        /\ \A a, b \in DOMAIN layout.nodes :
              layout.nodes[a].id = layout.nodes[b].id => a = b
        /\ \A a, b \in DOMAIN layout.links :
              layout.links[a].target = layout.links[b].target => a = b
        /\ \A id \in NodeIdsOf(layout) :
              id \notin ReachedFrom(layout, TargetsOf(layout, id), Len(layout.links))

\* C5's case: a map in which two nodes are each other's parent, a third is its
\* own parent and nothing is a root by itself, laid out with a link
C5_Witness ==
    /\ pc = "laid out"
    /\ Len(treeData.keys) = 3
    /\ treeData.node["n1"].p = "n2" /\ treeData.node["n2"].p = "n1"
    /\ treeData.node["n3"].p = "n3"
    /\ Len(layout.links) = 1
    /\ Len(layout.nodes) = 2

\* a label of the noise list, by the labels of the maps
IsNoiseLabel(l) == l \in {PrintfLabel, MallocLabel}

\* the ids that qualify as roots: no parent, or a parent the map lacks, and a
\* label that names no library call
Qualifying(td) ==
    {id \in KeySet(td) :
        /\ td.node[id].p \in {NULL, "null", UNDEFINED} \/ td.node[id].p \notin KeySet(td)
        /\ ~IsNoiseLabel(td.node[id].l)}

\* C9: whenever at least one node qualifies, the detected roots are exactly
\* the ids whose parent is null, "null", undefined or no key of the map and
\* whose label names neither printf nor malloc, each listed once; a node with
\* such a label is then no detected root, even with a null parent.
C9_RootDetection ==
    (pc = "laid out" /\ Qualifying(treeData) # {}) =>
        /\ Range(layout.roots) = Qualifying(treeData)
        /\ Len(layout.roots) = Cardinality(Qualifying(treeData))
        /\ \A id \in KeySet(treeData) :
              IsNoiseLabel(treeData.node[id].l) => id \notin Range(layout.roots)

\* C9's case: a node whose parent is missing from the map is a detected root,
\* beside a node with a null parent and a printf label that is none
C9_Witness ==
    /\ pc = "laid out"
    /\ \E a, b \in KeySet(treeData) :
          /\ treeData.node[a].p = DanglingId /\ treeData.node[a].l = CallLabel
          /\ a \in Range(layout.roots)
          /\ treeData.node[b].p = NULL /\ treeData.node[b].l = PrintfLabel
          /\ b \notin Range(layout.roots)

\* C13: the node list holds no node with the id of the super root, the link
\* list no link whose source is the super root, and no detected root is the
\* target of a link.
C13_NoSuperRoot ==
    pc = "laid out" =>
        /\ \A k \in DOMAIN layout.nodes : layout.nodes[k].id # SUPER_ROOT_ID
        /\ \A k \in DOMAIN layout.links : layout.links[k].source # SUPER_ROOT_ID
        /\ \A k \in DOMAIN layout.links :
              layout.links[k].target \notin Range(layout.roots)

\* C13's case: two detected roots, one of them with a child, so that the
\* hierarchy under the super root had three links and the output has one
C13_Witness ==
    /\ pc = "laid out"
    /\ Len(layout.roots) = 2
    /\ Len(layout.nodes) = 3
    /\ Len(layout.links) = 1
    /\ layout.links[1].source \in Range(layout.roots)

C15_RootsAtZero ==
    pc = "laid out" =>
        \A k \in DOMAIN layout.nodes :
            /\ layout.nodes[k].id \in Range(layout.roots) => layout.nodes[k].y = 0
            /\ layout.nodes[k].y = layout.nodes[k].treeY - LEVEL_HEIGHT

\* C16: for a map with at least one node in which no node qualifies as a
\* root, the first key is the sole root; it is in the node list, directly
\* under the super root, and it is not made a child of its declared parent:
\* no link leads to it.
C16_ZeroRootFallback ==
    (pc = "laid out" /\ Len(treeData.keys) > 0 /\ Qualifying(treeData) = {}) =>
        /\ layout.roots = <<treeData.keys[1]>>
        /\ \E k \in DOMAIN layout.nodes :
              /\ layout.nodes[k].id = treeData.keys[1]
              /\ layout.nodes[k].parent = SUPER_ROOT_ID
              /\ layout.nodes[k].depth = 1
        /\ \A k \in DOMAIN layout.links : layout.links[k].target # treeData.keys[1]

\* C16's case: the first key is a printf node, the second is its child and
\* its declared parent at once; the first is the root and the second under it
C16_Witness ==
    /\ pc = "laid out"
    /\ Len(treeData.keys) = 2
    /\ treeData.node["n1"].l = PrintfLabel /\ treeData.node["n1"].p = "n2"
    /\ treeData.node["n2"].l = CallLabel /\ treeData.node["n2"].p = "n1"
    /\ layout.roots = <<"n1">>
    /\ Len(layout.nodes) = 2
    /\ layout.links = <<[source |-> "n1", target |-> "n2"]>>

RECURSIVE ReachesRoot(_, _, _, _)
\* id is one of the roots, or following declared parents from it, through
\* keys of the map, leads to one in at most fuel steps
ReachesRoot(td, roots, id, fuel) ==
    \/ id \in Range(roots)
    \/ /\ fuel > 0
       /\ td.node[id].p \in KeySet(td)
       /\ ReachesRoot(td, roots, td.node[id].p, fuel - 1)

\* the links of the result that lead to id
LinksTo(id) == {k \in DOMAIN layout.links : layout.links[k].target = id}

\* a node of the map is returned exactly if its chain of declared parents
\* reaches a detected root, and a returned node that is no root has one link,
\* from its declared parent
ReturnedAreReachable ==
    /\ \A id \in KeySet(treeData) :
          id \in NodeIdsOf(layout) <=>
              ReachesRoot(treeData, layout.roots, id, Len(treeData.keys))
    /\ \A id \in NodeIdsOf(layout) \ Range(layout.roots) :
          /\ Cardinality(LinksTo(id)) = 1
          /\ \A k \in LinksTo(id) : layout.links[k].source = treeData.node[id].p

\* C22: a node of the map is in the returned list if and only if it is a
\* detected root or its chain of declared parents reaches one, and every
\* returned node that is no root is the target of exactly one returned link,
\* whose source is its declared parent; so a printf or malloc node without a
\* parent in the map, and what hangs under it only, is in neither list.
C22_ReachableFromRoots ==
    pc = "laid out" => ReturnedAreReachable

\* the same on the maps in which no node names the id of the super root as
\* its parent
ReachableUnlessSuperRootNamed ==
    (pc = "laid out" /\ \A id \in KeySet(treeData) : treeData.node[id].p # SUPER_ROOT_ID)
        => ReturnedAreReachable

\* C23: called with a node map that is empty or missing, and any viewport,
\* calculateTreeLayout returns an empty node list and an empty link list.
C23_EmptyMap ==
    (pc = "laid out" /\ IsEmptyMap(treeData)) =>
        /\ layout.nodes = <<>>
        /\ layout.links = <<>>
        /\ ~layout.diverges

\* C23's case: the call has returned for a missing map and a tall viewport
C23_Witness ==
    /\ pc = "laid out"
    /\ treeData = MissingTree
    /\ viewport.height = 1200
    /\ layout.nodes = <<>> /\ layout.links = <<>>

-----------------------------------------------------------------------------
(* Properties of the document handleBuild assembles. *)

\* C10: in the document assembled from the batches, an array-valued variable
\* of a step is in the mapping of every later step that has a snapshot, also
\* of a later step of a later batch.
C10_ArraysPersistAcrossBatches ==
    ~simData.none =>
        \A i, j \in DOMAIN simData.steps : \A v \in VarNames :
            (/\ i < j
             /\ v \in DOMAIN Mapping(simData.steps[i])
             /\ IsArray(Mapping(simData.steps[i])[v])
             /\ simData.steps[j].hasS) =>
                v \in DOMAIN Mapping(simData.steps[j])

RECURSIVE StepsUpTo(_)
\* the step sequences of the first k batches, one after the other
StepsUpTo(k) == IF k = 0 THEN <<>> ELSE StepsUpTo(k - 1) \o batches[k].steps

\* C17: after any number of merges the document's steps are the steps of the
\* batches, concatenated in arrival order, and the keys of its node map are
\* the union of the keys of the batches' node maps.
C17_BatchMerge ==
    ~simData.none =>
        /\ simData.steps = StepsUpTo(Len(batches))
        /\ DOMAIN simData.tree.node =
              UNION {DOMAIN batches[k].tree.node : k \in DOMAIN batches}
        /\ Range(simData.tree.keys) = DOMAIN simData.tree.node

\* C17's case: two batches with a step each have been merged; the first
\* brought a key that the second lacks, and the document still holds it
C17_Witness ==
    /\ Len(batches) = 2
    /\ Len(batches[1].steps) = 1 /\ Len(batches[2].steps) = 1
    /\ batches[1].steps # batches[2].steps
    /\ HasKey(batches[1].tree, "n1") /\ ~HasKey(batches[2].tree, "n1")
    /\ Len(simData.steps) = 2
    /\ HasKey(simData.tree, "n1")

\* the ids the document held before the last merge
EarlierIds == IF prev.none THEN {} ELSE DOMAIN prev.tree.node

\* C26: merging a later batch never alters a node declared by an earlier
\* batch unless the generator's raw output for the later batch redeclares the
\* id: when a step of the later batch merely references the id, the document
\* keeps the earlier label, parent, level, children and type.
C26_EarlierNodesKept ==
    Len(batches) >= 2 =>
        \A id \in EarlierIds \ DOMAIN raw.tree.node :
            simData.tree.node[id] = prev.tree.node[id]

\* what holds of C26: the node of an id that the later batch neither
\* declares nor references is kept
EarlierNodesKeptUnlessReferenced ==
    Len(batches) >= 2 =>
        \A id \in EarlierIds \ DOMAIN data.tree.node :
            simData.tree.node[id] = prev.tree.node[id]

-----------------------------------------------------------------------------
(* Properties of the ancestor walk. *)

\* C27: the ancestor walk terminates for every node map that can be in the
\* document after normalizeData and batch merging, maps with self-parent or
\* cyclic parent references included.
C27_WalkTerminates == (ancestorWalk.pc = "walking") ~> (ancestorWalk.pc = "finished")

\* what holds of C27: the walk ends on the documents whose map is acyclic
WalkTerminatesWhenAcyclic ==
    (ancestorWalk.pc = "walking" /\ Acyclic(simData.tree)) ~> (ancestorWalk.pc = "finished")

-----------------------------------------------------------------------------
(* Properties of retryWithBackoff. *)

\* the failure is one the claim has retried: it carries 429 in its message,
\* status or code, or its message speaks of JSON or of a failure to parse
RetriedClass(o) ==
    /\ ~o.ok
    /\ \/ o.error.message429 \/ o.error.status = 429 \/ o.error.code = 429
       \/ o.error.messageJSON \/ o.error.messageFailedToParse

\* the outcome of the last invocation made
LastOutcome == retry.log[Len(retry.log)]

\* C28: whatever the outcomes, retryWithBackoff invokes the operation at most
\* maxRetries (3) times, returns the result of the first successful attempt
\* and makes no attempt after it, makes another attempt only after a
\* rate-limit or parse failure while attempts remain, and otherwise rethrows
\* the failure of the last attempt made.
C28_RetryDiscipline ==
    /\ Len(retry.log) <= DefaultMaxRetries
    /\ \A k \in 1..(Len(retry.log) - 1) : RetriedClass(retry.log[k])
    /\ retry.pc = "returned" =>
          /\ Len(retry.log) >= 1
          /\ LastOutcome.ok /\ retry.result = LastOutcome.value
    /\ retry.pc = "thrown" =>
          /\ Len(retry.log) >= 1
          /\ ~LastOutcome.ok /\ retry.error = LastOutcome.error
          /\ ~RetriedClass(LastOutcome) \/ Len(retry.log) = DefaultMaxRetries
    /\ retry.pc = "waiting" =>
          RetriedClass(LastOutcome) /\ Len(retry.log) < DefaultMaxRetries

\* C28's case: a rate-limit failure, then a parse failure, then the third
\* attempt succeeds and its batch is returned after the doubled waits
C28_Witness ==
    /\ retry.pc = "returned"
    /\ Len(retry.log) = 3
    /\ retry.log[1].error.status = 429 /\ ~retry.log[1].error.messageJSON
    /\ retry.log[2].error.messageFailedToParse /\ retry.log[2].error.status = 500
    /\ retry.result = "batch"
    /\ retry.delay = 8000

\* the build has returned, and bookkeeping of the loop stays as it is
NoCallAfterTheLoop == pc = "done" => (sanityLimit' = sanityLimit /\ batches' = batches)

\* C29: the batch-fetch loop always terminates: after a successful start it
\* issues at most 20 nextBatch calls (sanityLimit counts them), no batch is
\* fetched after one whose isComplete flag is true or after a null one, and
\* the build ends, in every case, with isLoading false.
C29_LoopTerminates ==
    /\ [](/\ sanityLimit <= SanityLimit
          /\ \A k \in 1..(Len(batches) - 1) : ~batches[k].isComplete
          /\ pc = "done" => ~isLoading)
    /\ [][NoCallAfterTheLoop]_vars
    /\ <>(pc = "done" /\ ~isLoading)

\* C29's case: the generator never completed, the loop made its twenty calls
\* and the build ended with the loader off
C29_Witness ==
    /\ pc = "done"
    /\ sanityLimit = SanityLimit
    /\ Len(batches) = SanityLimit + 1
    /\ ~batches[Len(batches)].isComplete
    /\ ~isLoading

-----------------------------------------------------------------------------
(* Properties of playback. *)

\* the non-empty out fragments of steps 0..i of the document, in order
FragmentsThrough(i) ==
    LET outs == [k \in 1..(i + 1) |-> simData.steps[k].out]
    IN  SelectSeq(outs, LAMBDA o : o \notin {UNDEFINED, ""})

\* currentStepIdx is the index of a step, and the console shows the fragments
\* up to it
InStep ==
    /\ currentStepIdx \in 0..(Len(simData.steps) - 1)
    /\ consoleOutput = FragmentsThrough(currentStepIdx)

\* C30: once a simulation is loaded, after any sequence of Next, Prev and
\* autoplay ticks interleaved with batch appends, currentStepIdx is within
\* 0..steps.length-1 and consoleOutput is the ordered list of the non-empty
\* out fragments of steps 0..currentStepIdx.
C30_PlaybackInvariant == ~simData.none => InStep

\* what holds of C30: the same, once a simulation whose first batch had a
\* step is loaded
PlaybackInvariantFromAStep ==
    (~simData.none /\ Len(batches[1].steps) >= 1) => InStep

-----------------------------------------------------------------------------
(* Properties of the warnings of normalizeData. *)

\* the warnings that name node id
WarningsFor(id) == {k \in DOMAIN console : console[k].node = id}

\* C20: for every node the pass registers it writes exactly one diagnostic,
\* which carries the node id, the inferred parent and the index of the step
\* that named the node, and it writes none for a reference that resolves.
C20_DiagnosticPerSynthesis ==
    pc = "normalized" =>
        /\ \A id \in Synthesized :
              /\ Cardinality(WarningsFor(id)) = 1
              /\ \A k \in WarningsFor(id) :
                    /\ console[k].step = Origin(id) - 1
                    /\ "parent" \in DOMAIN console[k]
                    /\ console[k].parent = data.tree.node[id].p
        /\ \A k \in DOMAIN console : console[k].node \in Synthesized

\* what the warnings do carry: one per registered node, with its id and the
\* index of the step, and none for a reference that resolves
WarningsCarryIdAndStep ==
    pc = "normalized" =>
        /\ \A id \in Synthesized :
              /\ Cardinality(WarningsFor(id)) = 1
              /\ \A k \in WarningsFor(id) : console[k].step = Origin(id) - 1
        /\ \A k \in DOMAIN console : console[k].node \in Synthesized

=============================================================================
